---- MODULE Spec2Model ----
(***************************************************************************)
(* Model of the Ferrari F1 stream processor (src/stream-processor/main.py): *)
(* TimeWindow, AnomalyDetector, PitStopStrategyCalculator and               *)
(* StreamProcessor.process_message.                                         *)
(*                                                                          *)
(* Conventions                                                              *)
(*   - instants are integer ticks of half a second (Seconds(n) = 2n ticks); *)
(*     a datetime is [t |-> ticks, aware |-> has a UTC offset];             *)
(*   - a JSON value of a numeric field is [py |-> "float", v |-> n] or      *)
(*     [py |-> "str", v |-> 0] (a value Python cannot compare or add);      *)
(*   - temperatures are whole degrees, speeds whole km/h, tire wear is in   *)
(*     hundredths of a percent, scores are in 1/10000 of a point until      *)
(*     round(x, 2) turns them into hundredths of a point;                   *)
(*   - a processing latency (time.time() - start_time) is a whole number of *)
(*     milliseconds; the wall clock (time.time()) is read in ticks of half  *)
(*     a second, the processor being constructed at tick 0;                 *)
(*   - a throughput is the pair [messages, elapsed] of its quotient.        *)
(***************************************************************************)
EXTENDS Integers, Sequences, FiniteSets, TLC

Seconds(n) == n * 2

BRAKE_TEMP_CRITICAL == 950
TIRE_TEMP_CRITICAL == 130
DETECTION_WINDOW == Seconds(2)
ACTIVE_RETENTION == Seconds(60)
max_history == 100
latencies_maxlen == 1000

Positions == <<"fl", "fr", "rl", "rr">>
PositionSet == {"fl", "fr", "rl", "rr"}

Float(n) == [py |-> "float", v |-> n]
NotANumber == [py |-> "str", v |-> 0]
IsNumber(x) == x.py = "float"

(***************************************************************************)
(* datetime.fromisoformat(data.timestamp.replace('Z', '+00:00')).          *)
(* A timestamp string is [t, form]: form "Z" and "+00:00" carry a UTC      *)
(* offset, "naive" carries none, "malformed" is not ISO-8601.              *)
(***************************************************************************)
fromisoformat(timestamp) ==
    IF timestamp.form = "malformed"
    THEN [raised |-> TRUE, value |-> [t |-> 0, aware |-> FALSE]]
    ELSE [raised |-> FALSE,
          value |-> [t |-> timestamp.t, aware |-> timestamp.form # "naive"]]

(***************************************************************************)
(* TimeWindow: data is the deque of (timestamp, value) samples.            *)
(* Comparing or subtracting an offset-aware and an offset-naive datetime   *)
(* raises TypeError; so does comparing a str with a float.                 *)
(***************************************************************************)
\* mutant: "if" for "while", at most one sample is dropped
TimeWindow_cleanup_once(data, current_time) ==
    IF Len(data) = 0 THEN [data |-> data, raised |-> FALSE]
    ELSE IF data[1].timestamp.aware # current_time.aware
         THEN [data |-> data, raised |-> TRUE]
    ELSE IF data[1].timestamp.t < current_time.t - DETECTION_WINDOW
         THEN [data |-> Tail(data), raised |-> FALSE]
    ELSE [data |-> data, raised |-> FALSE]

\* mutant: "<=" for "<", the sample exactly one window old is dropped
RECURSIVE TimeWindow_cleanup_inclusive(_, _)
TimeWindow_cleanup_inclusive(data, current_time) ==
    IF Len(data) = 0 THEN [data |-> data, raised |-> FALSE]
    ELSE IF data[1].timestamp.aware # current_time.aware
         THEN [data |-> data, raised |-> TRUE]
    ELSE IF data[1].timestamp.t <= current_time.t - DETECTION_WINDOW
         THEN TimeWindow_cleanup_inclusive(Tail(data), current_time)
    ELSE [data |-> data, raised |-> FALSE]

\* mutant: samples are kept half a second longer than the window
RECURSIVE TimeWindow_cleanup_late(_, _)
TimeWindow_cleanup_late(data, current_time) ==
    IF Len(data) = 0 THEN [data |-> data, raised |-> FALSE]
    ELSE IF data[1].timestamp.aware # current_time.aware
         THEN [data |-> data, raised |-> TRUE]
    ELSE IF data[1].timestamp.t < current_time.t - DETECTION_WINDOW - 1
         THEN TimeWindow_cleanup_late(Tail(data), current_time)
    ELSE [data |-> data, raised |-> FALSE]

RECURSIVE TimeWindow_cleanup(_, _)
TimeWindow_cleanup(data, current_time) ==
    IF Len(data) = 0 THEN [data |-> data, raised |-> FALSE]
    ELSE IF data[1].timestamp.aware # current_time.aware
         THEN [data |-> data, raised |-> TRUE]
    ELSE IF data[1].timestamp.t < current_time.t - DETECTION_WINDOW
         THEN TimeWindow_cleanup(Tail(data), current_time)
    ELSE [data |-> data, raised |-> FALSE]

TimeWindow_add(data, timestamp, value) ==
    TimeWindow_cleanup(Append(data, [timestamp |-> timestamp, value |-> value]),
                       timestamp)

\* mutant: ">=" for ">"
RECURSIVE AllGreater_or_equal(_, _)
AllGreater_or_equal(data, threshold) ==
    IF Len(data) = 0 THEN "True"
    ELSE IF ~IsNumber(data[1].value) THEN "TypeError"
    ELSE IF ~(data[1].value.v >= threshold) THEN "False"
    ELSE AllGreater_or_equal(Tail(data), threshold)

\* all(value > threshold for _, value in self.data)
RECURSIVE AllGreater(_, _)
AllGreater(data, threshold) ==
    IF Len(data) = 0 THEN "True"
    ELSE IF ~IsNumber(data[1].value) THEN "TypeError"
    ELSE IF ~(data[1].value.v > threshold) THEN "False"
    ELSE AllGreater(Tail(data), threshold)

\* mutant: only the newest sample is tested
TimeWindow_newest_above_threshold(data, threshold) ==
    IF Len(data) = 0 THEN "False"
    ELSE IF ~IsNumber(data[Len(data)].value) THEN "TypeError"
    ELSE IF data[Len(data)].value.v > threshold THEN "True" ELSE "False"

TimeWindow_all_above_threshold(data, threshold) ==
    IF Len(data) = 0 THEN "False" ELSE AllGreater(data, threshold)

TimeWindow_get_duration(data) ==
    IF Len(data) < 2 THEN [raised |-> FALSE, value |-> 0]
    ELSE IF data[Len(data)].timestamp.aware # data[1].timestamp.aware
         THEN [raised |-> TRUE, value |-> 0]
    ELSE [raised |-> FALSE,
          value |-> data[Len(data)].timestamp.t - data[1].timestamp.t]

(***************************************************************************)
(* AnomalyDetector                                                         *)
(***************************************************************************)
EmptyWindows == [p \in PositionSet |-> <<>>]

AnomalyEvent(timestamp, car_id, anomaly_type, value, threshold, duration) ==
    [timestamp |-> timestamp, car_id |-> car_id, anomaly_type |-> anomaly_type,
     severity |-> "critical", value |-> value, threshold |-> threshold,
     duration_seconds |-> duration]

\* The test made on a window once the sample is in it (data is the window
\* after add, above and dur the results of all_above_threshold and
\* get_duration; "and" evaluates get_duration only when above is true).
DetectOutcome(data, above, dur, timestamp, car_id, temp, threshold, anomaly_type) ==
    IF above = "TypeError" THEN [data |-> data, raised |-> TRUE, events |-> <<>>]
    ELSE IF above = "False" THEN [data |-> data, raised |-> FALSE, events |-> <<>>]
    ELSE IF dur.raised THEN [data |-> data, raised |-> TRUE, events |-> <<>>]
    ELSE IF dur.value >= DETECTION_WINDOW
         THEN [data |-> data, raised |-> FALSE,
               events |-> << AnomalyEvent(timestamp, car_id, anomaly_type,
                                          temp, threshold, dur.value) >>]
    ELSE [data |-> data, raised |-> FALSE, events |-> <<>>]

DetectAdded(added, timestamp, car_id, temp, threshold, anomaly_type) ==
    IF added.raised THEN [data |-> added.data, raised |-> TRUE, events |-> <<>>]
    ELSE DetectOutcome(added.data,
                       TimeWindow_all_above_threshold(added.data, threshold),
                       TimeWindow_get_duration(added.data),
                       timestamp, car_id, temp, threshold, anomaly_type)

\* One iteration of a loop of detect: add the sample, test the window.
DetectPosition(data, timestamp, car_id, temp, threshold, anomaly_type) ==
    DetectAdded(TimeWindow_add(data, timestamp, temp),
                timestamp, car_id, temp, threshold, anomaly_type)

\* The loop over the four positions, in dictionary order; an exception
\* leaves the windows already visited modified and the others untouched.
LoopJoin(one, rest) ==
    [windows |-> rest.windows, raised |-> rest.raised,
     events |-> one.events \o rest.events]

RECURSIVE DetectLoop(_, _, _, _, _, _, _)
RECURSIVE LoopStep(_, _, _, _, _, _, _, _)
LoopStep(one, windows, temps, timestamp, car_id, threshold, prefix, i) ==
    IF one.raised
    THEN [windows |-> [windows EXCEPT ![Positions[i]] = one.data],
          raised |-> TRUE, events |-> <<>>]
    ELSE LoopJoin(one, DetectLoop([windows EXCEPT ![Positions[i]] = one.data],
                                  temps, timestamp, car_id, threshold, prefix, i + 1))

DetectLoop(windows, temps, timestamp, car_id, threshold, prefix, i) ==
    IF i > Len(Positions)
    THEN [windows |-> windows, raised |-> FALSE, events |-> <<>>]
    ELSE LoopStep(DetectPosition(windows[Positions[i]], timestamp, car_id,
                                 temps[Positions[i]], threshold,
                                 prefix \o Positions[i]),
                  windows, temps, timestamp, car_id, threshold, prefix, i)

\* mutant: the entry is assigned whether or not car_id is already a key
SetDefault_overwriting(dict, car_id, default) ==
    [c \in DOMAIN dict \cup {car_id} |->
        IF c = car_id THEN default ELSE dict[c]]

\* dict[car_id] = default when car_id is not yet a key
SetDefault(dict, car_id, default) ==
    [c \in DOMAIN dict \cup {car_id} |->
        IF c \in DOMAIN dict THEN dict[c] ELSE default]

AnomalyDetector_get_or_create_windows(D, car_id) ==
    [brake_windows    |-> SetDefault(D.brake_windows, car_id, EmptyWindows),
     tire_windows     |-> SetDefault(D.tire_windows, car_id, EmptyWindows),
     active_anomalies |-> SetDefault(D.active_anomalies, car_id, <<>>)]

\* "Mise a jour des anomalies actives": extend, then keep the events newer
\* than 60 s; only run when this call produced events.
PruneActive(extended, timestamp) ==
    IF \E i \in 1..Len(extended) : extended[i].timestamp.aware # timestamp.aware
    THEN [list |-> extended, raised |-> TRUE]
    ELSE [list |-> SelectSeq(extended,
                     LAMBDA a : a.timestamp.t > timestamp.t - ACTIVE_RETENTION),
          raised |-> FALSE]

\* mutant: the list is pruned on every call
UpdateActive_every_call(active, anomalies, timestamp) ==
    PruneActive(active \o anomalies, timestamp)

\* mutant: an event whose type is already in the list is not added again
UpdateActive_latched(active, anomalies, timestamp) ==
    IF Len(anomalies) = 0 THEN [list |-> active, raised |-> FALSE]
    ELSE PruneActive(
             active \o SelectSeq(anomalies,
                          LAMBDA a : \A i \in 1..Len(active) :
                                        active[i].anomaly_type # a.anomaly_type),
             timestamp)

UpdateActive(active, anomalies, timestamp) ==
    IF Len(anomalies) = 0 THEN [list |-> active, raised |-> FALSE]
    ELSE PruneActive(active \o anomalies, timestamp)

\* detect(data) on detector state D = [brake_windows, tire_windows,
\* active_anomalies]; returns the new detector state, the events and
\* whether an exception left the call.  The stages follow the code:
\* timestamp, windows creation, brake loop, tire loop, active list.
DetectFinish(D, car_id, anomalies, upd) ==
    [D |-> [D EXCEPT !.active_anomalies[car_id] = upd.list],
     anomalies |-> anomalies, raised |-> upd.raised]

DetectActive(D, car_id, timestamp, anomalies) ==
    DetectFinish(D, car_id, anomalies,
                 UpdateActive(D.active_anomalies[car_id], anomalies, timestamp))

DetectAfterTires(D, data, timestamp, brake_events, tires) ==
    IF tires.raised
    THEN [D |-> [D EXCEPT !.tire_windows[data.car_id] = tires.windows],
          anomalies |-> <<>>, raised |-> TRUE]
    ELSE DetectActive([D EXCEPT !.tire_windows[data.car_id] = tires.windows],
                      data.car_id, timestamp, brake_events \o tires.events)

DetectAfterBrakes(D, data, timestamp, brakes) ==
    IF brakes.raised
    THEN [D |-> [D EXCEPT !.brake_windows[data.car_id] = brakes.windows],
          anomalies |-> <<>>, raised |-> TRUE]
    ELSE DetectAfterTires([D EXCEPT !.brake_windows[data.car_id] = brakes.windows],
                          data, timestamp, brakes.events,
                          DetectLoop(D.tire_windows[data.car_id], data.tire_temp,
                                     timestamp, data.car_id, TIRE_TEMP_CRITICAL,
                                     "tire_overheat_", 1))

DetectCreated(D, data, timestamp) ==
    DetectAfterBrakes(D, data, timestamp,
                      DetectLoop(D.brake_windows[data.car_id], data.brake_temp,
                                 timestamp, data.car_id, BRAKE_TEMP_CRITICAL,
                                 "brake_overheat_", 1))

DetectParsed(D, data, parsed) ==
    IF parsed.raised THEN [D |-> D, anomalies |-> <<>>, raised |-> TRUE]
    ELSE DetectCreated(AnomalyDetector_get_or_create_windows(D, data.car_id),
                       data, parsed.value)

AnomalyDetector_detect(D, data) ==
    DetectParsed(D, data, fromisoformat(data.timestamp))

AnomalyDetector_get_active_count(active_anomalies) ==
    LET RECURSIVE Sum(_)
        Sum(S) == IF S = {} THEN 0
                  ELSE LET c == CHOOSE x \in S : TRUE
                       IN  Len(active_anomalies[c]) + Sum(S \ {c})
    IN  Sum(DOMAIN active_anomalies)

(***************************************************************************)
(* PitStopStrategyCalculator.  Scores are fixed point, 1/10000 of a point. *)
(***************************************************************************)
Points(n) == n * 10000
Clamp0to100(x) == IF x < 0 THEN 0 ELSE IF x > Points(100) THEN Points(100) ELSE x

\* round(x, 2): x in 1/10000 of a point, result in hundredths of a point,
\* ties to even.
Round2(x) ==
    LET q == x \div 100
        r == x % 100
    IN  IF r > 50 THEN q + 1
        ELSE IF r < 50 THEN q
        ELSE IF q % 2 = 0 THEN q ELSE q + 1

\* mutant: a plain list, nothing is evicted
HistoryAppend_unbounded(h, data) == Append(h, data)

\* mutant: a full history keeps its oldest records and drops the new one
HistoryAppend_keep_oldest(h, data) ==
    IF Len(h) >= max_history THEN h ELSE Append(h, data)

\* deque(maxlen=max_history).append
HistoryAppend(h, data) ==
    IF Len(h) >= max_history THEN Append(Tail(h), data) ELSE Append(h, data)

RECURSIVE SumSpeeds(_)
SumSpeeds(records) ==
    IF Len(records) = 0 THEN 0
    ELSE records[1].speed_kmh.v + SumSpeeds(Tail(records))

\* mutant: the percentage itself, not amplified by 5
AmplifiedLoss_plain(n, d) ==
    Points((100 * n) \div d) + (Points((100 * n) % d) \div d)

\* floor(500 * n / d) in 1/10000 of a point, d > 0
AmplifiedLoss(n, d) ==
    Points((500 * n) \div d) + (Points((500 * n) % d) \div d)

SpeedLossOf(bad, sum_early, sum_recent) ==
    IF bad THEN [raised |-> TRUE, value |-> 0]
    ELSE IF sum_early = 0 THEN [raised |-> FALSE, value |-> 0]
    ELSE [raised |-> FALSE,
          value |-> Clamp0to100(
              IF sum_early > 0
              THEN AmplifiedLoss(sum_early - sum_recent, sum_early)
              ELSE AmplifiedLoss(sum_recent - sum_early, 0 - sum_early))]

\* mutant: the two groups exchanged (gain, not loss)
SpeedLossGroups_swapped(early, recent) ==
    SpeedLossOf(\E i \in 1..10 : ~IsNumber(early[i].speed_kmh)
                                 \/ ~IsNumber(recent[i].speed_kmh),
                SumSpeeds(recent), SumSpeeds(early))

SpeedLossGroups(early, recent) ==
    SpeedLossOf(\E i \in 1..10 : ~IsNumber(early[i].speed_kmh)
                                 \/ ~IsNumber(recent[i].speed_kmh),
                SumSpeeds(early), SumSpeeds(recent))

\* mutant: no "if avg_early == 0" guard, the division raises
PitStop_calculate_speed_loss_unguarded(h) ==
    IF Len(h) < 10 THEN [raised |-> FALSE, value |-> 0]
    ELSE IF SumSpeeds(SubSeq(h, 1, 10)) = 0 THEN [raised |-> TRUE, value |-> 0]
    ELSE SpeedLossGroups(SubSeq(h, 1, 10), SubSeq(h, Len(h) - 9, Len(h)))

PitStop_calculate_speed_loss(h) ==
    IF Len(h) < 10 THEN [raised |-> FALSE, value |-> 0]
    ELSE SpeedLossGroups(SubSeq(h, 1, 10), SubSeq(h, Len(h) - 9, Len(h)))

temp_min == 250
temp_max == 950

BrakeDegradationOf(bad, total) ==
    IF bad THEN [raised |-> TRUE, value |-> 0]
    \* ((total/4 - temp_min) / (temp_max - temp_min)) * 100
    ELSE [raised |-> FALSE,
          value |-> Clamp0to100((Points(total - 4 * temp_min) * 25)
                                \div (temp_max - temp_min))]

PitStop_calculate_brake_degradation(data) ==
    BrakeDegradationOf(\E p \in PositionSet : ~IsNumber(data.brake_temp[p]),
                       data.brake_temp["fl"].v + data.brake_temp["fr"].v
                       + data.brake_temp["rl"].v + data.brake_temp["rr"].v)

Min(a, b) == IF a < b THEN a ELSE b

AnomalyScore(anomalies) == Min(Len(anomalies) * 25, 100)

\* tire wear is in hundredths of a percent: wear/100 points * 0.40
TotalScore(wear100, speed_loss, brake_degradation, anomaly_score) ==
    wear100 * 40 + (speed_loss * 3) \div 10 + (brake_degradation * 2) \div 10
    + Points(anomaly_score) \div 10

Urgency(total_score) ==
    IF total_score >= Points(90) THEN "critical"
    ELSE IF total_score >= Points(75) THEN "high"
    ELSE IF total_score >= Points(50) THEN "medium"
    ELSE "low"

Recommendation(urgency) ==
    CASE urgency = "critical" -> "PIT-STOP IMMEDIAT REQUIS!"
      [] urgency = "high"     -> "Pit-stop fortement recommande au prochain tour"
      [] urgency = "medium"   -> "Pit-stop recommande dans les 3-5 prochains tours"
      [] OTHER                -> "Continuer, surveillance normale"

NoRecommendation ==
    [score |-> 0, urgency |-> "none", recommendation |-> "none",
     tire_wear |-> 0, avg_speed_loss |-> 0, brake_degradation |-> 0]

\* calculate_score(data, anomalies) on the history dictionary
ScoreResult(h1, data, speed, brake, total) ==
    IF speed.raised \/ brake.raised \/ ~IsNumber(data.tire_wear_percent)
    THEN [history |-> h1, raised |-> TRUE, rec |-> NoRecommendation]
    ELSE [history |-> h1, raised |-> FALSE,
          rec |-> [score |-> Round2(total),
                   urgency |-> Urgency(total),
                   recommendation |-> Recommendation(Urgency(total)),
                   tire_wear |-> data.tire_wear_percent.v,
                   avg_speed_loss |-> Round2(speed.value),
                   brake_degradation |-> Round2(brake.value)]]

ScoreFactors(h1, data, anomalies, speed, brake) ==
    ScoreResult(h1, data, speed, brake,
                TotalScore(data.tire_wear_percent.v, speed.value, brake.value,
                           AnomalyScore(anomalies)))

\* mutant: the simulator's tag is trusted and counted as one more anomaly
ScoreAppended_trusting_tag(h1, data, anomalies) ==
    ScoreFactors(h1, data,
                 IF data.has_anomaly THEN Append(anomalies, data.anomaly_type)
                 ELSE anomalies,
                 PitStop_calculate_speed_loss(h1[data.car_id]),
                 PitStop_calculate_brake_degradation(data))

ScoreAppended(h1, data, anomalies) ==
    ScoreFactors(h1, data, anomalies,
                 PitStop_calculate_speed_loss(h1[data.car_id]),
                 PitStop_calculate_brake_degradation(data))

\* mutant: one history for all cars, the record is appended to each
HistoryAppended_every_car(h0, data) ==
    [c \in DOMAIN h0 |-> HistoryAppend(h0[c], data)]

HistoryAppended(h0, data) ==
    [h0 EXCEPT ![data.car_id] = HistoryAppend(h0[data.car_id], data)]

PitStop_calculate_score(history, data, anomalies) ==
    ScoreAppended(HistoryAppended(SetDefault(history, data.car_id, <<>>), data),
                  data, anomalies)

(***************************************************************************)
(* StreamProcessor.  A processor state is the record                       *)
(*   [brake_windows, tire_windows, active_anomalies, history,              *)
(*    messages_count, latencies, messages_since_last_update,               *)
(*    last_throughput_update, current_throughput, result, trace,           *)
(*    elapsed, clock, now]                                                 *)
(* result is what the last call returned ("raised" when it raised), trace  *)
(* the log of the calls made so far (history variable), elapsed the        *)
(* latency the clock will measure for the call being made, clock the       *)
(* readings of time.time() that call will make for the throughput and now  *)
(* the latest reading made.                                                *)
(***************************************************************************)
SerializedAnomalies(anomalies) ==
    [i \in 1..Len(anomalies) |->
        [type |-> anomalies[i].anomaly_type, severity |-> anomalies[i].severity,
         value |-> anomalies[i].value, threshold |-> anomalies[i].threshold,
         duration |-> anomalies[i].duration_seconds]]

NoResult ==
    [status |-> "none", car_id |-> "none", lap |-> 0, anomalies |-> <<>>,
     pitstop |-> NoRecommendation]

Raised(data) == [NoResult EXCEPT !.status = "raised"]

Processed(data, anomalies, rec) ==
    [status |-> "processed", car_id |-> data.car_id, lap |-> data.lap,
     anomalies |-> SerializedAnomalies(anomalies), pitstop |-> rec]

Detector(S) ==
    [brake_windows |-> S.brake_windows, tire_windows |-> S.tire_windows,
     active_anomalies |-> S.active_anomalies]

\* the log entry of a call: its record, what it returned, the latency it
\* measured (0 when it raised before measuring) and the stage it ended in
\* ("parse", "detect", "score" for a call that raised there, "done")
Logged(S, data, result, latency, stage) ==
    Append(S.trace, [data |-> data, status |-> result.status,
                     anomalies |-> result.anomalies, pitstop |-> result.pitstop,
                     latency |-> latency, stage |-> stage, clock |-> S.clock])

Fail(S, data, stage) ==
    [S EXCEPT !.result = Raised(data),
              !.trace = Logged(S, data, Raised(data), 0, stage)]

\* mutant: a plain list, nothing is evicted
LatenciesAppend_unbounded(latencies, latency) == Append(latencies, latency)

\* deque(maxlen=1000).append
LatenciesAppend(latencies, latency) ==
    IF Len(latencies) >= latencies_maxlen THEN Append(Tail(latencies), latency)
    ELSE Append(latencies, latency)

\* mutant: the throughput is recomputed on every call
Throughput_every_call(S, since) ==
    [S EXCEPT !.current_throughput =
                  [messages |-> since,
                   elapsed |-> S.clock.division - S.last_throughput_update],
              !.messages_since_last_update = 0,
              !.last_throughput_update = S.clock.reset]

\* "Mise a jour du throughput toutes les secondes": since is the counter
\* just incremented; S.clock holds the three readings of time.time(), for
\* the test, for the division and for the new last_throughput_update
Throughput(S, since) ==
    IF S.clock.test - S.last_throughput_update >= Seconds(1)
    THEN [S EXCEPT !.current_throughput =
                       [messages |-> since,
                        elapsed |-> S.clock.division - S.last_throughput_update],
                   !.messages_since_last_update = 0,
                   !.last_throughput_update = S.clock.reset]
    ELSE [S EXCEPT !.messages_since_last_update = since]

\* "Statistiques": S.elapsed is what time.time() - start_time measures
Succeed(S, data, result) ==
    Throughput([S EXCEPT !.latencies = LatenciesAppend(S.latencies, S.elapsed),
                         !.messages_count = S.messages_count + 1,
                         !.result = result,
                         !.trace = Logged(S, data, result, S.elapsed, "done")],
               S.messages_since_last_update + 1)

WithDetector(S, D) ==
    [S EXCEPT !.brake_windows = D.brake_windows,
              !.tire_windows = D.tire_windows,
              !.active_anomalies = D.active_anomalies]

ProcessScored(S, data, anomalies, sc) ==
    IF sc.raised THEN Fail([S EXCEPT !.history = sc.history], data, "score")
    ELSE Succeed([S EXCEPT !.history = sc.history], data,
                 Processed(data, anomalies, sc.rec))

\* mutant: the scorer is given the car's whole active list
ProcessDetected_active_list(S, data, det) ==
    IF det.raised THEN Fail(WithDetector(S, det.D), data, "detect")
    ELSE ProcessScored(WithDetector(S, det.D), data, det.anomalies,
                       PitStop_calculate_score(S.history, data,
                                               det.D.active_anomalies[data.car_id]))

ProcessDetected(S, data, det) ==
    IF det.raised THEN Fail(WithDetector(S, det.D), data, "detect")
    ELSE ProcessScored(WithDetector(S, det.D), data, det.anomalies,
                       PitStop_calculate_score(S.history, data, det.anomalies))

StreamProcessor_process_message(S, data) ==
    \* TelemetryData(**data): a missing or an unknown key raises TypeError
    IF data.shape # "ok" THEN Fail(S, data, "parse")
    ELSE ProcessDetected(S, data, AnomalyDetector_detect(Detector(S), data))

EmptyDict == [c \in {} |-> <<>>]

\* StreamProcessor.__init__
Fresh ==
    [brake_windows |-> EmptyDict, tire_windows |-> EmptyDict,
     active_anomalies |-> EmptyDict, history |-> EmptyDict,
     messages_count |-> 0, latencies |-> <<>>,
     messages_since_last_update |-> 0, last_throughput_update |-> 0,
     current_throughput |-> [messages |-> 0, elapsed |-> 1],
     result |-> NoResult, trace |-> <<>>, elapsed |-> 1,
     clock |-> [test |-> 0, division |-> 0, reset |-> 0], now |-> 0]

\* the state after the calls process_message(records[lo]), ...,
\* process_message(records[hi]) made in turn.  The range is halved, and the
\* state after the first half is computed (its log is read) before the
\* second half starts, so that the evaluation never nests deeper than the
\* logarithm of the number of calls.
RECURSIVE RunRange(_, _, _, _)
RunSecondHalf(half, records, lo, hi) ==
    IF Len(half.trace) >= 0 THEN RunRange(half, records, lo, hi) ELSE half

RunRange(S, records, lo, hi) ==
    IF lo > hi THEN S
    ELSE IF lo = hi THEN StreamProcessor_process_message(S, records[lo])
    ELSE RunSecondHalf(RunRange(S, records, lo, (lo + hi) \div 2),
                       records, (lo + hi) \div 2 + 1, hi)

Run(S, records) == RunRange(S, records, 1, Len(records))

(***************************************************************************)
(* State                                                                   *)
(***************************************************************************)
\* threads: for each thread that calls process_message, the call it is
\* making and its position in it; serialized: no two calls for one car have
\* been in progress at the same time so far (history variable); metrics: the
\* simulator's MetricsCollector and, as a history variable, what became of
\* each message it generated
VARIABLES brake_windows, tire_windows, active_anomalies, history,
          messages_count, latencies, messages_since_last_update,
          last_throughput_update, current_throughput, wall_clock,
          result, trace, threads, serialized, metrics

vars == <<brake_windows, tire_windows, active_anomalies, history,
          messages_count, latencies, messages_since_last_update,
          last_throughput_update, current_throughput, wall_clock,
          result, trace, threads, serialized, metrics>>

\* the two threads main() starts in Kafka mode: the consumer thread and the
\* thread of the event loop that serves POST /telemetry
Threads == {"kafka", "rest"}

\* MetricsCollector.__init__
NoMetrics == [messages_sent |-> 0, messages_failed |-> 0, sends |-> <<>>]

IdleCall ==
    [pc |-> "idle", data |-> <<>>, anomalies |-> <<>>, rec |-> NoRecommendation,
     seen |-> 0, since |-> 0, size |-> 0]

State ==
    [brake_windows |-> brake_windows, tire_windows |-> tire_windows,
     active_anomalies |-> active_anomalies, history |-> history,
     messages_count |-> messages_count, latencies |-> latencies,
     messages_since_last_update |-> messages_since_last_update,
     last_throughput_update |-> last_throughput_update,
     current_throughput |-> current_throughput,
     result |-> result, trace |-> trace, elapsed |-> 1,
     clock |-> [test |-> wall_clock, division |-> wall_clock, reset |-> wall_clock],
     now |-> wall_clock]

\* the state in which the clock will measure the given latency
Timed(S, latency) == [S EXCEPT !.elapsed = latency]

\* the state in which the call's three readings of time.time() will be reads
Clocked(S, reads) == [S EXCEPT !.clock = reads, !.now = reads.reset]

\* the processor's attributes become those of S
Shared(S) ==
    /\ brake_windows' = S.brake_windows
    /\ tire_windows' = S.tire_windows
    /\ active_anomalies' = S.active_anomalies
    /\ history' = S.history
    /\ messages_count' = S.messages_count
    /\ latencies' = S.latencies
    /\ messages_since_last_update' = S.messages_since_last_update
    /\ last_throughput_update' = S.last_throughput_update
    /\ current_throughput' = S.current_throughput
    /\ wall_clock' = S.now
    /\ result' = S.result
    /\ trace' = S.trace

\* a whole call made while no other call is in progress
Becomes(S) ==
    /\ Shared(S)
    /\ UNCHANGED <<threads, serialized, metrics>>

Starts(S) ==
    /\ brake_windows = S.brake_windows
    /\ tire_windows = S.tire_windows
    /\ active_anomalies = S.active_anomalies
    /\ history = S.history
    /\ messages_count = S.messages_count
    /\ latencies = S.latencies
    /\ messages_since_last_update = S.messages_since_last_update
    /\ last_throughput_update = S.last_throughput_update
    /\ current_throughput = S.current_throughput
    /\ wall_clock = S.now
    /\ result = S.result
    /\ trace = S.trace
    /\ threads = [th \in Threads |-> IdleCall]
    /\ serialized = TRUE
    /\ metrics = NoMetrics

(***************************************************************************)
(* Inputs                                                                  *)
(***************************************************************************)
AllAt(n) == [p \in PositionSet |-> Float(n)]
OneAt(position, n, others) ==
    [p \in PositionSet |-> IF p = position THEN Float(n) ELSE Float(others)]

\* the simulator's own anomaly tag: absent (the dataclass defaults), or set
NoTag == [has_anomaly |-> FALSE, anomaly_type |-> "None", anomaly_severity |-> "None"]
Tags == { NoTag,
          [has_anomaly |-> TRUE, anomaly_type |-> "brake_overheat",
           anomaly_severity |-> "critical"] }

Telemetry(car_id, t, form, brake, tire, wear, speed) ==
    [shape |-> "ok", timestamp |-> [t |-> t, form |-> form], car_id |-> car_id,
     lap |-> 1, speed_kmh |-> speed, brake_temp |-> brake, tire_temp |-> tire,
     tire_wear_percent |-> wear, has_anomaly |-> NoTag.has_anomaly,
     anomaly_type |-> NoTag.anomaly_type,
     anomaly_severity |-> NoTag.anomaly_severity]

Tagged(data, tag) ==
    [data EXCEPT !.has_anomaly = tag.has_anomaly,
                 !.anomaly_type = tag.anomaly_type,
                 !.anomaly_severity = tag.anomaly_severity]

\* the timestamp of the previous record (tick 4 before the first one)
LastTime == IF Len(trace) = 0 THEN 4 ELSE trace[Len(trace)].data.timestamp.t

\* the thermal part of a record: nominal; the front-left brake overheated;
\* the front-left brake exactly at its threshold with the rear-right tire
\* overheated
Thermal ==
    { [brake |-> AllAt(800), tire |-> AllAt(100)],
      [brake |-> OneAt("fl", 960, 800), tire |-> AllAt(100)],
      [brake |-> OneAt("fl", BRAKE_TEMP_CRITICAL, 800),
       tire |-> OneAt("rr", 140, 100)] }

\* gaps between consecutive records, in ticks: 1.0 s, 1.5 s, 61 s, and a
\* record that is 1.0 s older than the previous one
Gaps == {2, 3, 122, 0 - 2}

MaxMessages == 4

Receive(data) ==
    /\ Len(trace) < MaxMessages
    /\ Becomes(StreamProcessor_process_message(State, data))

Init == Starts(Fresh)

Next ==
    \E gap \in Gaps, th \in Thermal :
        Receive(Telemetry("car1", LastTime + gap, "Z", th.brake, th.tire,
                          Float(0), Float(300)))

Spec == Init /\ [][Next]_vars

(***************************************************************************)
(* Second specification: one car whose history already holds WarmUp        *)
(* records (all at speed 300, or all at speed 0) receives records of every *)
(* shape the endpoint can be sent: valid ones, ones whose tire wear is out *)
(* of range, and malformed ones.                                           *)
(***************************************************************************)
WarmUp == 9
MaxInputs == 3

WarmRecords(speed) ==
    [i \in 1..WarmUp |->
        Telemetry("car1", 4 + Seconds(i), "Z", AllAt(800), AllAt(100),
                  Float(0), Float(speed))]

Nominal ==
    [shape |-> "ok", form |-> "Z", brake |-> AllAt(800), tire |-> AllAt(100),
     wear |-> Float(0), speed |-> Float(300), tag |-> NoTag]

ValidBodies ==
    { Nominal,
      \* everything overheated, tires worn out
      [Nominal EXCEPT !.form = "+00:00", !.brake = AllAt(960),
                      !.tire = AllAt(140), !.wear = Float(10000)],
      \* tire wear 74.99 %, brakes exactly at 950
      [Nominal EXCEPT !.brake = AllAt(950), !.wear = Float(7499)],
      \* standing still
      [Nominal EXCEPT !.speed = Float(0), !.brake = AllAt(250)],
      \* tagged by the simulator, nominal and overheated
      [Nominal EXCEPT !.tag = CHOOSE tag \in Tags : tag.has_anomaly],
      [Nominal EXCEPT !.brake = AllAt(960), !.tire = AllAt(140),
                      !.tag = CHOOSE tag \in Tags : tag.has_anomaly] }

AcceptedBodies ==
    { \* tire wear 300 %: not a percentage, but nothing checks it
      [Nominal EXCEPT !.wear = Float(30000), !.brake = AllAt(960)] }

MalformedBodies ==
    { [Nominal EXCEPT !.shape = "missing"],
      [Nominal EXCEPT !.shape = "extra"],
      [Nominal EXCEPT !.form = "malformed"],
      [Nominal EXCEPT !.form = "naive"],
      [Nominal EXCEPT !.wear = NotANumber],
      [Nominal EXCEPT !.speed = NotANumber],
      [Nominal EXCEPT !.brake = [AllAt(960) EXCEPT !["fr"] = NotANumber]],
      [Nominal EXCEPT !.tire = [AllAt(100) EXCEPT !["rl"] = NotANumber]] }

Bodies == ValidBodies \cup AcceptedBodies \cup MalformedBodies

Record(car_id, t, body) ==
    [Tagged(Telemetry(car_id, t, body.form, body.brake, body.tire, body.wear,
                      body.speed), body.tag)
        EXCEPT !.shape = body.shape]

ReceiveInput(data) ==
    /\ Len(trace) < WarmUp + MaxInputs
    /\ Becomes(StreamProcessor_process_message(State, data))

InitInputs == \E speed \in {0, 300} : Starts(Run(Fresh, WarmRecords(speed)))

NextInputs ==
    \E body \in Bodies : ReceiveInput(Record("car1", LastTime + Seconds(1), body))

SpecInputs == InitInputs /\ [][NextInputs]_vars

(***************************************************************************)
(* Third specification: one car that has already sent enough nominal       *)
(* records to fill (all but two places of) the 100-record history, or (all *)
(* but one place of) the 1000-entry latency buffer, receives a few more    *)
(* records, each processed with a latency of 1 or 2 ms.                    *)
(***************************************************************************)
HistoryWarm == max_history - 2
LatencyWarm == latencies_maxlen - 1
MaxLong == 4

LongRecords(n) ==
    [i \in 1..n |->
        Telemetry("car1", 4 + Seconds(i), "Z", AllAt(800), AllAt(100),
                  Float(0), Float(300))]

LongBodies ==
    { Nominal,
      [Nominal EXCEPT !.brake = AllAt(960), !.tire = AllAt(140)],
      [Nominal EXCEPT !.wear = NotANumber],
      [Nominal EXCEPT !.shape = "missing"] }

Latencies == {1, 2}

\* at most MaxLong calls are made after the n already made
LongBudget(n) ==
    \/ (n >= HistoryWarm /\ n < HistoryWarm + MaxLong)
    \/ (n >= LatencyWarm /\ n < LatencyWarm + MaxLong)

ReceiveLong(data, latency) ==
    /\ LongBudget(Len(trace))
    /\ Becomes(StreamProcessor_process_message(Timed(State, latency), data))

InitLong ==
    \E n \in {HistoryWarm, LatencyWarm} : Starts(Run(Fresh, LongRecords(n)))

NextLong ==
    \E body \in LongBodies, latency \in Latencies :
        ReceiveLong(Record("car1", LastTime + Seconds(1), body), latency)

SpecLong == InitLong /\ [][NextLong]_vars

(***************************************************************************)
(* Fourth specification: two new cars, served in turn, each sending ten    *)
(* records at one speed and then records at a lower speed; tire wear 0,    *)
(* brakes at 250, tires nominal.                                           *)
(***************************************************************************)
MaxTrend == 40

EarlySpeeds == {300, 200}
SpeedGaps == {10, 30, 60, 150}

TrendRecord(car_id, i, speed) ==
    Telemetry(car_id, 4 + Seconds(i), "Z", AllAt(250), AllAt(100),
              Float(0), Float(speed))

\* the records already sent by a car
Sent(car_id) == SelectSeq(trace, LAMBDA e : e.data.car_id = car_id)
LastSpeed(car_id) == Sent(car_id)[Len(Sent(car_id))].data.speed_kmh.v

ReceiveTrend(data) ==
    /\ Len(trace) < MaxTrend
    /\ Becomes(StreamProcessor_process_message(State, data))

FirstRecord(car_id) ==
    /\ Len(Sent(car_id)) = 0
    /\ \E speed \in EarlySpeeds : ReceiveTrend(TrendRecord(car_id, 1, speed))

SlowDown(car_id) ==
    /\ Len(Sent(car_id)) = 10
    /\ \E gap \in SpeedGaps :
          ReceiveTrend(TrendRecord(car_id, 11, LastSpeed(car_id) - gap))

SameSpeed(car_id) ==
    /\ Len(Sent(car_id)) \notin {0, 10}
    /\ ReceiveTrend(TrendRecord(car_id, Len(Sent(car_id)) + 1, LastSpeed(car_id)))

InitTrend == Starts(Fresh)

NextTrend ==
    \E car_id \in {IF Len(trace) % 2 = 0 THEN "car1" ELSE "car2"} :
        \/ FirstRecord(car_id)
        \/ SlowDown(car_id)
        \/ SameSpeed(car_id)

SpecTrend == InitTrend /\ [][NextTrend]_vars

(***************************************************************************)
(* Fifth specification: Kafka mode.  The consumer thread and the REST      *)
(* thread call process_message on the one processor, for either of two     *)
(* cars, with no lock; the interpreter may switch threads between any two  *)
(* of the steps below.  detect and calculate_score are each one step (they *)
(* touch the entries of the record's car only, and add the car's keys to   *)
(* the dictionaries); "self.messages_count += 1" is a read and a write,    *)
(* and so is "self.messages_since_last_update += 1";                       *)
(* get_active_count iterates over active_anomalies.values() in a generator *)
(* expression, and the iterator raises RuntimeError when the dictionary    *)
(* has changed size since the iteration started.                           *)
(***************************************************************************)
MaxCalls == 3

Cars == {"car1", "car2"}

Busy(th) == threads[th].pc # "idle"

\* the records of a car are 2.0 s apart, front-left brake overheated
Begun(car_id) ==
    Len(SelectSeq(trace, LAMBDA e : e.data.car_id = car_id))
    + Cardinality({th \in Threads : Busy(th) /\ threads[th].data.car_id = car_id})

CallsBegun == Len(trace) + Cardinality({th \in Threads : Busy(th)})

ThreadRecord(car_id) ==
    Telemetry(car_id, 4 + Seconds(2) * (Begun(car_id) + 1), "Z",
              OneAt("fl", 960, 800), AllAt(100), Float(0), Float(300))

At(th, pc) == threads[th].pc = pc

Moves(th, call) ==
    /\ threads' = [threads EXCEPT ![th] = call]
    /\ UNCHANGED <<serialized, metrics>>

\* process_message is entered: TelemetryData(**data)
Begin(th, data) ==
    /\ At(th, "idle")
    /\ CallsBegun < MaxCalls
    /\ threads' = [threads EXCEPT ![th] = [IdleCall EXCEPT !.pc = "detect",
                                                           !.data = data]]
    /\ serialized' = (serialized /\ \A other \in Threads \ {th} :
                         ~(Busy(other) /\ threads[other].data.car_id = data.car_id))
    /\ UNCHANGED metrics
    /\ Shared(State)

DetectEnds(th, det) ==
    IF det.raised
    THEN /\ Shared(Fail(WithDetector(State, det.D), threads[th].data, "detect"))
         /\ Moves(th, IdleCall)
    ELSE /\ Shared(WithDetector(State, det.D))
         /\ Moves(th, [threads[th] EXCEPT !.pc = "score",
                                          !.anomalies = det.anomalies])

\* anomalies = self.anomaly_detector.detect(telemetry)
Detect(th) ==
    /\ At(th, "detect")
    /\ DetectEnds(th, AnomalyDetector_detect(Detector(State), threads[th].data))

ScoreEnds(th, sc) ==
    IF sc.raised
    THEN /\ Shared(Fail([State EXCEPT !.history = sc.history],
                        threads[th].data, "score"))
         /\ Moves(th, IdleCall)
    ELSE /\ Shared([State EXCEPT !.history = sc.history])
         /\ Moves(th, [threads[th] EXCEPT !.pc = "stats", !.rec = sc.rec])

\* pitstop_rec = self.pitstop_calculator.calculate_score(telemetry, anomalies)
Score(th) ==
    /\ At(th, "score")
    /\ ScoreEnds(th, PitStop_calculate_score(history, threads[th].data,
                                             threads[th].anomalies))

\* self.latencies.append(latency), and the read of self.messages_count
Stats(th) ==
    /\ At(th, "stats")
    /\ Shared([State EXCEPT !.latencies = LatenciesAppend(latencies, State.elapsed)])
    /\ Moves(th, [threads[th] EXCEPT !.pc = "count", !.seen = messages_count])

\* the write of self.messages_count, and the read of
\* self.messages_since_last_update
Count(th) ==
    /\ At(th, "count")
    /\ Shared([State EXCEPT !.messages_count = threads[th].seen + 1])
    /\ Moves(th, [threads[th] EXCEPT !.pc = "throughput",
                                     !.since = messages_since_last_update])

\* the write of self.messages_since_last_update, and the throughput
UpdateThroughput(th) ==
    /\ At(th, "throughput")
    /\ Shared(Throughput(State, threads[th].since + 1))
    /\ Moves(th, [threads[th] EXCEPT !.pc = "active"])

\* get_active_count: the iteration over the dictionary starts
ActiveCount(th) ==
    /\ At(th, "active")
    /\ Shared(State)
    /\ Moves(th, [threads[th] EXCEPT !.pc = "iterating",
                                     !.size = Cardinality(DOMAIN active_anomalies)])

\* the iteration ends, and the result is returned
Return(th) ==
    /\ At(th, "iterating")
    /\ IF Cardinality(DOMAIN active_anomalies) # threads[th].size
       THEN Shared(Fail(State, threads[th].data, "active"))
       ELSE Shared([State EXCEPT
                !.result = Processed(threads[th].data, threads[th].anomalies,
                                     threads[th].rec),
                !.trace = Logged(State, threads[th].data,
                                 Processed(threads[th].data, threads[th].anomalies,
                                           threads[th].rec),
                                 State.elapsed, "done")])
    /\ Moves(th, IdleCall)

InitThreads == Starts(Fresh)

NextThreads ==
    \E th \in Threads :
        \/ \E car_id \in Cars : Begin(th, ThreadRecord(car_id))
        \/ Detect(th)
        \/ Score(th)
        \/ Stats(th)
        \/ Count(th)
        \/ UpdateThroughput(th)
        \/ ActiveCount(th)
        \/ Return(th)

SpecThreads == InitThreads /\ [][NextThreads]_vars

(***************************************************************************)
(* Sixth specification: the wall clock.  One car sends nominal records     *)
(* (and records with a missing field); the call for a record starts 0.5,   *)
(* 1.0 or 1.5 s after the latest reading of the clock, and the clock may   *)
(* advance by half a second between two readings made by the call.         *)
(***************************************************************************)
MaxClock == 4

ClockGaps == {1, Seconds(1), Seconds(1) + 1}
ClockDrifts == {0, 1}

Readings(first, drift) ==
    [test |-> first, division |-> first + drift, reset |-> first + 2 * drift]

ReceiveClock(data, reads) ==
    /\ Len(trace) < MaxClock
    /\ Becomes(StreamProcessor_process_message(Clocked(State, reads), data))

InitClock == Starts(Fresh)

NextClock ==
    \E gap \in ClockGaps :
        \/ \E drift \in ClockDrifts :
              ReceiveClock(Record("car1", LastTime + Seconds(1), Nominal),
                           Readings(wall_clock + gap, drift))
        \/ ReceiveClock(Record("car1", LastTime + Seconds(1),
                                [Nominal EXCEPT !.shape = "missing"]),
                        Readings(wall_clock + gap, 0))

SpecClock == InitClock /\ [][NextClock]_vars

(***************************************************************************)
(* Vocabulary of the properties                                            *)
(***************************************************************************)
Kinds == {"brake", "tire"}
Threshold(kind) == IF kind = "brake" THEN BRAKE_TEMP_CRITICAL ELSE TIRE_TEMP_CRITICAL
EventType(kind, position) ==
    (IF kind = "brake" THEN "brake_overheat_" ELSE "tire_overheat_") \o position
Temp(kind, data, position) ==
    IF kind = "brake" THEN data.brake_temp[position] ELSE data.tire_temp[position]
Window(kind, car_id, position) ==
    IF kind = "brake" THEN brake_windows[car_id][position]
    ELSE tire_windows[car_id][position]

KnownCars == DOMAIN brake_windows

Above(x, threshold) == IsNumber(x) /\ x.v > threshold
HasEvent(anomalies, type) == \E i \in 1..Len(anomalies) : anomalies[i].type = type

\* the calls made for one car, in call order
CallsOf(car_id) == SelectSeq(trace, LAMBDA e : e.data.car_id = car_id)
TimeOf(call) == call.data.timestamp.t

\* the stream of a car is timestamp-ordered (non-decreasing)
Ordered(calls) ==
    \A i \in 1..Len(calls) : \A j \in i..Len(calls) : TimeOf(calls[i]) <= TimeOf(calls[j])

AllProcessed(calls) == \A i \in 1..Len(calls) : calls[i].status = "processed"

Span(data) == data[Len(data)].timestamp.t - data[1].timestamp.t

\* no retained sample is older than the newest sample minus the window
NoStale(data) ==
    \A i \in 1..Len(data) :
        data[i].timestamp.t >= data[Len(data)].timestamp.t - DETECTION_WINDOW

(***************************************************************************)
(* C1 (as stated): after each add, whatever the order of the timestamps,   *)
(* every retained sample is at most one window older than the sample just  *)
(* added.                                                                  *)
(***************************************************************************)
C1_NoStaleAnyOrder ==
    \A c \in KnownCars : \A k \in Kinds : \A p \in PositionSet :
        AllProcessed(CallsOf(c)) => NoStale(Window(k, c, p))

(***************************************************************************)
(* C1 (amended): when the samples are added with non-decreasing            *)
(* timestamps, after each add every retained sample's timestamp is         *)
(* >= (timestamp of the sample just added - window duration).              *)
(***************************************************************************)
C1_NoStaleOrdered ==
    \A c \in KnownCars : \A k \in Kinds : \A p \in PositionSet :
        (AllProcessed(CallsOf(c)) /\ Ordered(CallsOf(c)))
            => NoStale(Window(k, c, p))

\* an ordered stream in which a window has dropped older samples
C1_Witness ==
    \E c \in KnownCars :
        /\ Ordered(CallsOf(c)) /\ AllProcessed(CallsOf(c))
        /\ Len(CallsOf(c)) >= 3
        /\ Len(brake_windows[c]["fl"]) = 2

(***************************************************************************)
(* C2: in a timestamp-ordered stream, when every sample of a position over *)
(* a stretch of records covering at least 2.0 s is strictly above the      *)
(* threshold, the call for the last record of the stretch returns an       *)
(* overheat event for that position.  (Checked on stretches sampled        *)
(* faster than the window: consecutive records less than 2.0 s apart.)     *)
(***************************************************************************)
C2_SustainedExcursionDetected ==
    \A c \in KnownCars : \A k \in Kinds : \A p \in PositionSet :
        LET calls == CallsOf(c)
            n == Len(calls)
        IN  \A i \in 1..n :
                ( /\ Ordered(calls) /\ AllProcessed(calls)
                  /\ \A j \in i..n : Above(Temp(k, calls[j].data, p), Threshold(k))
                  /\ \A j \in i..(n - 1) :
                        TimeOf(calls[j + 1]) - TimeOf(calls[j]) < DETECTION_WINDOW
                  /\ TimeOf(calls[n]) - TimeOf(calls[i]) >= DETECTION_WINDOW )
                => HasEvent(calls[n].anomalies, EventType(k, p))

(***************************************************************************)
(* C3: debounce.  A call returns an event for a position only if, after    *)
(* the current sample was added, every sample of that position's window    *)
(* is strictly above the threshold and the window spans at least 2.0 s.    *)
(***************************************************************************)
C3_Debounce ==
    result.status = "processed" =>
        \A k \in Kinds : \A p \in PositionSet :
            HasEvent(result.anomalies, EventType(k, p)) =>
                LET w == Window(k, result.car_id, p)
                IN  /\ \A i \in 1..Len(w) : Above(w[i].value, Threshold(k))
                    /\ Span(w) >= DETECTION_WINDOW

\* a spike, then a cooler sample less than 2.0 s later, then a hot sample:
\* the window spans 2.0 s, still holds the cooler sample, and no event
C3_Witness ==
    /\ result.status = "processed"
    /\ result.anomalies = <<>>
    /\ LET w == brake_windows[result.car_id]["fl"]
       IN  /\ Len(w) = 3
           /\ Span(w) >= DETECTION_WINDOW
           /\ Above(w[1].value, BRAKE_TEMP_CRITICAL)
           /\ ~Above(w[2].value, BRAKE_TEMP_CRITICAL)
           /\ w[2].timestamp.t - w[1].timestamp.t < DETECTION_WINDOW
           /\ Above(w[3].value, BRAKE_TEMP_CRITICAL)

(***************************************************************************)
(* C4: for a previously unseen car and one brake position, three records   *)
(* 1.0 s apart with that brake above 950 and the other positions nominal:  *)
(* the first two calls return no event, the third exactly one event, of    *)
(* type brake_overheat_<position>.                                         *)
(***************************************************************************)
OnlyBrakeHot(data, position) ==
    /\ Above(data.brake_temp[position], BRAKE_TEMP_CRITICAL)
    /\ \A q \in PositionSet \ {position} :
            IsNumber(data.brake_temp[q]) /\ data.brake_temp[q].v <= BRAKE_TEMP_CRITICAL
    /\ \A q \in PositionSet :
            IsNumber(data.tire_temp[q]) /\ data.tire_temp[q].v <= TIRE_TEMP_CRITICAL

ThreeHotRecords(calls, position) ==
    /\ Len(calls) >= 3
    /\ \A i \in 1..3 : calls[i].status = "processed"
                       /\ OnlyBrakeHot(calls[i].data, position)
    /\ TimeOf(calls[2]) - TimeOf(calls[1]) = Seconds(1)
    /\ TimeOf(calls[3]) - TimeOf(calls[2]) = Seconds(1)

C4_ThirdRecordFires ==
    \A c \in KnownCars : \A p \in PositionSet :
        ThreeHotRecords(CallsOf(c), p) =>
            LET calls == CallsOf(c)
            IN  /\ calls[1].anomalies = <<>>
                /\ calls[2].anomalies = <<>>
                /\ Len(calls[3].anomalies) = 1
                /\ calls[3].anomalies[1].type = "brake_overheat_" \o p

C4_Witness ==
    \E c \in KnownCars : \E p \in PositionSet :
        /\ ThreeHotRecords(CallsOf(c), p)
        /\ Len(CallsOf(c)) = 3
        /\ Len(result.anomalies) = 1

(***************************************************************************)
(* C5: all_above_threshold is false on an empty window, and otherwise true *)
(* iff every retained value is strictly greater than the threshold; a      *)
(* retained sample exactly equal to the threshold blocks the event.        *)
(***************************************************************************)
C5_AllAboveStrict ==
    /\ \A k \in Kinds : TimeWindow_all_above_threshold(<<>>, Threshold(k)) = "False"
    /\ \A c \in KnownCars : \A k \in Kinds : \A p \in PositionSet :
        LET w == Window(k, c, p)
        IN  (\A i \in 1..Len(w) : IsNumber(w[i].value)) =>
              /\ (TimeWindow_all_above_threshold(w, Threshold(k)) = "True")
                    <=> (Len(w) > 0 /\ \A i \in 1..Len(w) : w[i].value.v > Threshold(k))
              /\ TimeWindow_all_above_threshold(w, Threshold(k)) \in {"True", "False"}
              /\ ( /\ result.status = "processed" /\ result.car_id = c
                   /\ \E i \in 1..Len(w) : w[i].value.v = Threshold(k) )
                    => ~HasEvent(result.anomalies, EventType(k, p))

\* two overheated samples then one exactly at 950 over 2.0 s: no event
C5_Witness ==
    /\ result.status = "processed"
    /\ LET w == brake_windows[result.car_id]["fl"]
       IN  /\ Len(w) = 3 /\ Span(w) >= DETECTION_WINDOW
           /\ w[1].value.v > BRAKE_TEMP_CRITICAL
           /\ w[2].value.v > BRAKE_TEMP_CRITICAL
           /\ w[3].value.v = BRAKE_TEMP_CRITICAL
    /\ ~HasEvent(result.anomalies, "brake_overheat_fl")

(***************************************************************************)
(* C6: after every detect call for a car with record timestamp t, every    *)
(* event of that car's active list has a timestamp within the 60 seconds   *)
(* before t.                                                               *)
(***************************************************************************)
C6_ActiveListPruned ==
    (result.status = "processed" /\ Ordered(CallsOf(result.car_id))
     /\ AllProcessed(CallsOf(result.car_id))) =>
        \A i \in 1..Len(active_anomalies[result.car_id]) :
            LET a == active_anomalies[result.car_id][i]
            IN  /\ a.timestamp.t > LastTime - ACTIVE_RETENTION
                /\ a.timestamp.t <= LastTime

(***************************************************************************)
(* C7: for every record process_message accepts, the returned composite    *)
(* pitstop.score (in hundredths of a point) lies within [0, 100].          *)
(***************************************************************************)
C7_ScoreInRange ==
    result.status = "processed" =>
        (result.pitstop.score >= 0 /\ result.pitstop.score <= 100 * 100)

(***************************************************************************)
(* C8: the reported urgency is determined by the reported two-decimal      *)
(* score: critical iff score >= 90.00, high iff 75.00 <= score < 90.00,    *)
(* medium iff 50.00 <= score < 75.00, low iff score < 50.00.               *)
(***************************************************************************)
C8_UrgencyMatchesReportedScore ==
    result.status = "processed" =>
        LET score == result.pitstop.score
            urgency == result.pitstop.urgency
        IN  /\ (urgency = "critical") <=> (score >= 9000)
            /\ (urgency = "high")     <=> (score >= 7500 /\ score < 9000)
            /\ (urgency = "medium")   <=> (score >= 5000 /\ score < 7500)
            /\ (urgency = "low")      <=> (score < 5000)

(***************************************************************************)
(* C9: a valid record (every schema field present and of the right type,   *)
(* ISO-8601 timestamp with its UTC offset), processed in a state reached   *)
(* by valid records only, does not raise and its result carries            *)
(* pitstop.score.                                                          *)
(***************************************************************************)
ValidRecord(data) ==
    /\ data.shape = "ok"
    /\ data.timestamp.form \in {"Z", "+00:00"}
    /\ IsNumber(data.speed_kmh)
    /\ IsNumber(data.tire_wear_percent)
    /\ \A p \in PositionSet : IsNumber(data.brake_temp[p]) /\ IsNumber(data.tire_temp[p])

AllValid(calls) == \A i \in 1..Len(calls) : ValidRecord(calls[i].data)

C9_ValidRecordNeverRaises ==
    (Len(trace) > 0 /\ AllValid(trace)) =>
        /\ result.status = "processed"
        /\ result.pitstop.urgency \in {"low", "medium", "high", "critical"}
        /\ result.pitstop.score \in Int

\* valid records only, the last one moving and scored against a history
\* whose first ten records all have speed 0 (the early average is 0)
C9_Witness ==
    /\ Len(trace) > WarmUp /\ AllValid(trace)
    /\ result.status = "processed"
    /\ Len(history[result.car_id]) > 10
    /\ SumSpeeds(SubSeq(history[result.car_id], 1, 10)) = 0
    /\ trace[Len(trace)].data.speed_kmh.v > 0

(***************************************************************************)
(* C10: whenever process_message raises, the per-entity state (windows,    *)
(* active-anomaly lists, scorer histories) is what it was before the call. *)
(***************************************************************************)
C10_ExceptionSafety ==
    [][ result'.status = "raised" =>
            /\ brake_windows' = brake_windows
            /\ tire_windows' = tire_windows
            /\ active_anomalies' = active_anomalies
            /\ history' = history ]_vars

(***************************************************************************)
(* C11: failure locality.  After a call that raised, every later valid     *)
(* record is still processed without raising.                              *)
(***************************************************************************)
C11_FailureLocality ==
    \A i \in 1..Len(trace) : \A j \in 1..Len(trace) :
        (i < j /\ trace[i].status = "raised" /\ ValidRecord(trace[j].data))
            => trace[j].status = "processed"

(***************************************************************************)
(* C12: a record with a missing, an unknown or a mistyped field is         *)
(* rejected before it reaches the detector or the scorer: the call raises  *)
(* and no window, active list, history or counter has been modified.       *)
(***************************************************************************)
Mistyped(data) ==
    \/ ~IsNumber(data.speed_kmh)
    \/ ~IsNumber(data.tire_wear_percent)
    \/ \E p \in PositionSet : ~IsNumber(data.brake_temp[p]) \/ ~IsNumber(data.tire_temp[p])

SchemaInvalid(data) == data.shape # "ok" \/ Mistyped(data)

C12_RejectedAtBoundary ==
    [][ (Len(trace') > Len(trace) /\ SchemaInvalid(trace'[Len(trace')].data)) =>
            /\ result'.status = "raised"
            /\ brake_windows' = brake_windows
            /\ tire_windows' = tire_windows
            /\ active_anomalies' = active_anomalies
            /\ history' = history
            /\ messages_count' = messages_count
            /\ latencies' = latencies ]_vars

(***************************************************************************)
(* C15: each car's history holds exactly the last min(n, 100) records      *)
(* passed to calculate_score for that car, in arrival order (n = number of *)
(* such records): never more than 100, the oldest evicted first.           *)
(***************************************************************************)
\* the calls of a car that reached calculate_score, in call order
Scored(car_id) ==
    SelectSeq(trace, LAMBDA e : e.data.car_id = car_id /\ e.stage \in {"score", "done"})

LastOf(seq, n) == SubSeq(seq, Len(seq) - n + 1, Len(seq))
DataOf(calls) == [i \in 1..Len(calls) |-> calls[i].data]

C15_HistoryLastHundred ==
    /\ \A i \in 1..Len(trace) :
          trace[i].stage \in {"score", "done"} => trace[i].data.car_id \in DOMAIN history
    /\ \A c \in DOMAIN history :
          /\ Len(history[c]) <= 100
          /\ history[c] = DataOf(LastOf(Scored(c), Min(Len(Scored(c)), 100)))

\* more than 100 records scored for a car: the oldest ones are gone
C15_Witness ==
    \E c \in DOMAIN history :
        /\ Len(Scored(c)) > 100
        /\ Len(history[c]) = 100
        /\ history[c][1] = Scored(c)[Len(Scored(c)) - 99].data
        /\ history[c][1] # Scored(c)[1].data

(***************************************************************************)
(* C16: the speed-loss factor reported for a record is 0 when the car's    *)
(* history (current record included) has fewer than 10 records, 0 when the *)
(* mean speed of the first 10 history records is 0 (and the call does not  *)
(* raise), and otherwise 5 * 100 * (early - recent) / early clamped to     *)
(* [0, 100], recent being the mean of the last 10 history records.         *)
(* The reported value r is in hundredths of a point, rounded: with E and   *)
(* R the sums of the two groups, |r - 100 * 500 * (E - R) / E| <= 0.51.    *)
(***************************************************************************)
Abs(x) == IF x < 0 THEN 0 - x ELSE x

ReferenceSpeedLoss(r, E, R) ==
    IF E = 0 THEN r = 0
    ELSE IF E - R <= 0 THEN r = 0
    ELSE IF 500 * (E - R) >= 100 * E THEN r = 100 * 100
    ELSE Abs(2 * r * E - 100000 * (E - R)) <= E + (E \div 50) + 1

NumericSpeeds(records) == \A i \in 1..Len(records) : IsNumber(records[i].speed_kmh)

C16_SpeedLossReference ==
    /\ result.status = "processed" =>
          IF Len(history[result.car_id]) < 10
          THEN result.pitstop.avg_speed_loss = 0
          ELSE ReferenceSpeedLoss(result.pitstop.avg_speed_loss,
                                  SumSpeeds(SubSeq(history[result.car_id], 1, 10)),
                                  SumSpeeds(LastOf(history[result.car_id], 10)))
    /\ (Len(trace) > 0 /\ trace[Len(trace)].stage = "score") =>
          ~NumericSpeeds(history[trace[Len(trace)].data.car_id])
          \/ Mistyped(trace[Len(trace)].data)

\* more than ten records, the recent ones slower: a factor strictly
\* between 0 and 100
C16_Witness ==
    /\ result.status = "processed"
    /\ Len(history[result.car_id]) > 10
    /\ result.pitstop.avg_speed_loss > 0
    /\ result.pitstop.avg_speed_loss < 100 * 100

(***************************************************************************)
(* C17: for a new car fed 10 records at one speed then 10 records at a     *)
(* lower speed (tire wear 0, brakes at 250, no anomalies), the speed-loss  *)
(* component of the 20th result is > 0; and between two such scenarios     *)
(* with the same early speed, the one with the wider gap has a 20th        *)
(* composite score that is at least as high, and strictly higher as long   *)
(* as the narrower one's speed-loss component is below its cap of 100.     *)
(***************************************************************************)
TenThenTen(calls) ==
    /\ Len(calls) >= 20
    /\ \A i \in 1..20 : calls[i].status = "processed" /\ calls[i].anomalies = <<>>
    /\ \A i \in 1..10 : calls[i].data.speed_kmh = calls[1].data.speed_kmh
    /\ \A i \in 11..20 : calls[i].data.speed_kmh = calls[20].data.speed_kmh
    /\ calls[20].data.speed_kmh.v < calls[1].data.speed_kmh.v

EarlySpeed(calls) == calls[1].data.speed_kmh.v
SpeedGap(calls) == calls[1].data.speed_kmh.v - calls[20].data.speed_kmh.v

WiderGapHigherScore(narrow, wide) ==
    (EarlySpeed(narrow) = EarlySpeed(wide) /\ SpeedGap(narrow) < SpeedGap(wide)) =>
        /\ narrow[20].pitstop.score <= wide[20].pitstop.score
        /\ narrow[20].pitstop.avg_speed_loss < 100 * 100
              => narrow[20].pitstop.score < wide[20].pitstop.score

C17_SpeedGapMonotone ==
    \A a \in KnownCars : \A b \in KnownCars :
        (TenThenTen(CallsOf(a)) /\ TenThenTen(CallsOf(b))) =>
            /\ CallsOf(a)[20].pitstop.avg_speed_loss > 0
            /\ WiderGapHigherScore(CallsOf(a), CallsOf(b))

\* two cars with the same early speed and different gaps, both past
\* their 20th record, the wider gap scoring strictly higher
C17_Witness ==
    \E a \in KnownCars : \E b \in KnownCars :
        /\ TenThenTen(CallsOf(a)) /\ TenThenTen(CallsOf(b))
        /\ EarlySpeed(CallsOf(a)) = EarlySpeed(CallsOf(b))
        /\ SpeedGap(CallsOf(a)) < SpeedGap(CallsOf(b))
        /\ CallsOf(a)[20].pitstop.avg_speed_loss > 0
        /\ CallsOf(a)[20].pitstop.score < CallsOf(b)[20].pitstop.score

(***************************************************************************)
(* C18: the anomaly factor of a record's composite score is                *)
(* min(100, 25 * k), k being the number of events returned for that same   *)
(* record; the events of earlier records, still in the car's active list,  *)
(* do not contribute.                                                      *)
(***************************************************************************)
ScoreWithAnomalyFactor(data, h, factor) ==
    Round2(TotalScore(data.tire_wear_percent.v,
                      PitStop_calculate_speed_loss(h).value,
                      PitStop_calculate_brake_degradation(data).value,
                      factor))

C18_AnomalyFactorThisCall ==
    result.status = "processed" =>
        result.pitstop.score =
            ScoreWithAnomalyFactor(trace[Len(trace)].data, history[result.car_id],
                                   Min(100, 25 * Len(result.anomalies)))

\* a record without events scored while the active list still holds the
\* events of an earlier record that had more than four of them
C18_Witness ==
    /\ result.status = "processed"
    /\ Len(result.anomalies) = 0
    /\ Len(active_anomalies[result.car_id]) > 0
    /\ \E i \in 1..Len(trace) : Len(trace[i].anomalies) > 4

(***************************************************************************)
(* C19: non-interference of the upstream anomaly tag.  Erasing the values  *)
(* of has_anomaly, anomaly_type and anomaly_severity commutes with every   *)
(* call: the call made on the record without its tag, in the state reached *)
(* by the same records without their tags, returns the same result and     *)
(* leaves the same windows, active lists, histories (tags apart) and       *)
(* counters.  By induction on the calls, two runs that differ only in the  *)
(* tags return identical anomalies and pitstop results for every record    *)
(* and decide identically afterwards.                                      *)
(***************************************************************************)
Untag(data) == Tagged(data, NoTag)

Erased(S) ==
    [S EXCEPT !.history = [c \in DOMAIN S.history |->
                              [i \in 1..Len(S.history[c]) |-> Untag(S.history[c][i])]],
              !.trace = [i \in 1..Len(S.trace) |->
                              [S.trace[i] EXCEPT !.data = Untag(S.trace[i].data)]]]

C19_TagNonInterference ==
    [][ Len(trace') > Len(trace) =>
            Erased(State)' =
                StreamProcessor_process_message(Erased(State),
                                                Untag(trace'[Len(trace')].data)) ]_vars

\* a tagged record was processed, and so was a record after it
C19_Witness ==
    /\ Len(trace) > 1
    /\ result.status = "processed"
    /\ \E i \in 1..(Len(trace) - 1) :
          trace[i].data.has_anomaly /\ trace[i].status = "processed"

(***************************************************************************)
(* C20: with calls run one at a time, messages_count is the number of      *)
(* calls that returned a result (calls that raised are not counted), and   *)
(* the latency buffer holds, in order, the latencies of the last           *)
(* min(messages_count, 1000) of them, never more than 1000 entries.        *)
(***************************************************************************)
\* returned: the calls that returned a result, in call order
CountsAndHolds(returned) ==
    /\ messages_count = Len(returned)
    /\ Len(latencies) <= 1000
    /\ Len(latencies) = Min(messages_count, 1000)
    /\ \A i \in 1..Len(latencies) :
          latencies[i] = returned[Len(returned) - Len(latencies) + i].latency

C20_CountAndLatencies ==
    CountsAndHolds(SelectSeq(trace, LAMBDA e : e.status = "processed"))

\* more than 1000 calls returned, some call raised, and the buffer holds
\* two different latencies
C20_Witness ==
    /\ messages_count > 1000
    /\ Len(latencies) = 1000
    /\ \E i \in 1..Len(trace) : trace[i].status = "raised"
    /\ latencies[999] # latencies[1000]

(***************************************************************************)
(* C13: as long as the calls for one car run one at a time, whatever the   *)
(* interleaving of the calls for different cars across the threads, every  *)
(* call ends with the result (anomalies list, pitstop score, urgency and   *)
(* sub-scores) that the same records give when processed serially.         *)
(***************************************************************************)
SameResults(serial) ==
    \A i \in 1..Len(trace) :
        /\ trace[i].status = serial.trace[i].status
        /\ trace[i].anomalies = serial.trace[i].anomalies
        /\ trace[i].pitstop = serial.trace[i].pitstop

C13_SerialEquivalence ==
    serialized => SameResults(Run(Fresh, DataOf(trace)))

(***************************************************************************)
(* C14: in Kafka mode, the consumer thread and the REST thread are never   *)
(* both inside process_message for the same car.                           *)
(***************************************************************************)
C14_SingleWriterPerEntity ==
    \A a \in Threads : \A b \in Threads \ {a} :
        (Busy(a) /\ Busy(b)) => threads[a].data.car_id # threads[b].data.car_id

(***************************************************************************)
(* C21: a call that returns a result recomputes the throughput iff at      *)
(* least 1.0 s of wall time has passed since the last recomputation, as    *)
(* (messages counted since then, the current one included) / elapsed time, *)
(* and then sets the since-last counter to 0 and the last-recomputation    *)
(* time to the clock's reading; a call made less than 1.0 s after the last *)
(* recomputation only adds one to the since-last counter.  A call that     *)
(* raises changes none of the three.                                       *)
(***************************************************************************)
Recomputed(call) ==
    /\ current_throughput' =
          [messages |-> messages_since_last_update + 1,
           elapsed |-> call.clock.division - last_throughput_update]
    /\ current_throughput'.elapsed >= Seconds(1)
    /\ messages_since_last_update' = 0
    /\ last_throughput_update' = call.clock.reset

OnlyCounted ==
    /\ messages_since_last_update' = messages_since_last_update + 1
    /\ UNCHANGED <<current_throughput, last_throughput_update>>

ThroughputStep(call) ==
    IF call.status = "processed"
    THEN IF call.clock.test - last_throughput_update >= Seconds(1)
         THEN Recomputed(call)
         ELSE OnlyCounted
    ELSE UNCHANGED <<current_throughput, last_throughput_update,
                     messages_since_last_update>>

C21_ThroughputOncePerSecond ==
    [][ Len(trace') > Len(trace) => ThroughputStep(trace'[Len(trace')]) ]_vars

\* a recomputation over several messages has been followed by a call that
\* only counted
C21_Witness ==
    /\ current_throughput.messages > 1
    /\ messages_since_last_update = 1
    /\ last_throughput_update > 0
    /\ wall_clock - last_throughput_update < Seconds(1)
    /\ \E i \in 1..Len(trace) : trace[i].status = "raised"

(***************************************************************************)
(* Seventh specification: two cars send records over one serial stream, in *)
(* any interleaving; a record is nominal, has the front-left brake         *)
(* overheated, or carries a timestamp that is not ISO-8601.  The records   *)
(* of one car are 1.0 s apart.                                             *)
(***************************************************************************)
MaxCars == 5

CarBodies ==
    { Nominal,
      [Nominal EXCEPT !.brake = OneAt("fl", 960, 800)],
      [Nominal EXCEPT !.form = "malformed"] }

\* the number of records received so far for one car
Received(car_id) ==
    Cardinality({i \in 1..Len(trace) : trace[i].data.car_id = car_id})

ReceiveCar(data) ==
    /\ Len(trace) < MaxCars
    /\ Becomes(StreamProcessor_process_message(State, data))

InitCars == Starts(Fresh)

NextCars ==
    \E car_id \in Cars, body \in CarBodies :
        ReceiveCar(Record(car_id, 4 + Seconds(Received(car_id) + 1), body))

SpecCars == InitCars /\ [][NextCars]_vars

\* the three maps of the detector have the same keys
SameKeys ==
    /\ DOMAIN brake_windows = DOMAIN tire_windows
    /\ DOMAIN tire_windows = DOMAIN active_anomalies

\* the call got as far as _get_or_create_windows
Entered(call) ==
    call.data.shape = "ok" /\ ~fromisoformat(call.data.timestamp).raised

\* the window holds nothing but the sample of the call made at time t
OnlySample(data, t) ==
    Len(data) <= 1 /\ \A i \in 1..Len(data) : data[i].timestamp.t = t

\* the samples of the window before the call that are still within the
\* detection window at time t are the first samples of the window after it
Kept(before, after, t) ==
    LET recent == SelectSeq(before,
                    LAMBDA s : s.timestamp.t >= t - DETECTION_WINDOW)
    IN  /\ Len(recent) <= Len(after)
        /\ \A i \in 1..Len(recent) : after[i] = recent[i]

LazilyCreated(call, c) ==
    /\ Entered(call) => c \in KnownCars'
    /\ ~Entered(call) => KnownCars' = KnownCars
    /\ KnownCars' \subseteq KnownCars \cup {c}
    /\ (c \notin KnownCars /\ c \in KnownCars') =>
          /\ active_anomalies'[c] = <<>>
          /\ \A p \in PositionSet :
                /\ DOMAIN brake_windows'[c] = PositionSet
                /\ DOMAIN tire_windows'[c] = PositionSet
                /\ OnlySample(brake_windows'[c][p], TimeOf(call))
                /\ OnlySample(tire_windows'[c][p], TimeOf(call))
    /\ (c \in KnownCars /\ Entered(call)) =>
          \A p \in PositionSet :
                /\ Kept(brake_windows[c][p], brake_windows'[c][p], TimeOf(call))
                /\ Kept(tire_windows[c][p], tire_windows'[c][p], TimeOf(call))

(***************************************************************************)
(* C22: the detector's per-car state is created lazily and never evicted.  *)
(* The three maps always have the same keys; no call removes a key; the    *)
(* call for a car that is not yet a key (and whose timestamp parses) makes *)
(* it one, with four windows per kind that hold nothing but that call's    *)
(* sample and with an empty active list; no other key appears; and the     *)
(* call for a car that is a key keeps its windows (the samples still       *)
(* within 2.0 s stay in them).                                             *)
(***************************************************************************)
C22_LazyNeverEvicted ==
    [][ /\ SameKeys /\ SameKeys'
        /\ KnownCars \subseteq KnownCars'
        /\ Len(trace') > Len(trace) =>
              LazilyCreated(trace'[Len(trace')], trace'[Len(trace')].data.car_id)
      ]_vars

\* the second car is first seen, by the last call, after the first car has
\* filled its windows, and the first car's windows are still there
C22_Witness ==
    /\ Len(trace) >= 3
    /\ trace[1].data.car_id = "car1"
    /\ trace[Len(trace)].data.car_id = "car2"
    /\ Received("car2") = 1
    /\ KnownCars = {"car1", "car2"}
    /\ Len(brake_windows["car1"]["fl"]) >= 2
    /\ Len(brake_windows["car2"]["fl"]) = 1
    /\ active_anomalies["car2"] = <<>>

\* the call just made returned normally with no event
NoEventCall ==
    /\ Len(trace') > Len(trace)
    /\ trace'[Len(trace')].status = "processed"
    /\ trace'[Len(trace')].anomalies = <<>>

(***************************************************************************)
(* C23: a call whose detect returns no event leaves the active list of     *)
(* every car as it was (nothing is pruned), so the value of                *)
(* get_active_count is the same after the call as before it, even when the *)
(* list holds events older than 60 s at the record's timestamp.            *)
(***************************************************************************)
C23_NoPruningWithoutEvents ==
    [][ NoEventCall =>
          /\ \A c \in DOMAIN active_anomalies :
                active_anomalies'[c] = active_anomalies[c]
          /\ AnomalyDetector_get_active_count(active_anomalies')
                = AnomalyDetector_get_active_count(active_anomalies)
      ]_vars

\* the last call returned no event and the list still holds an event that
\* is 60 s old or older at that call's timestamp
C23_Witness ==
    /\ Len(trace) >= 4
    /\ result.status = "processed"
    /\ trace[Len(trace)].anomalies = <<>>
    /\ AnomalyDetector_get_active_count(active_anomalies) >= 1
    /\ \E i \in 1..Len(active_anomalies["car1"]) :
          active_anomalies["car1"][i].timestamp.t <= LastTime - ACTIVE_RETENTION

(***************************************************************************)
(* The telemetry simulator (src/sensor-simulator/main.py): one car's       *)
(* run_forever loop generates a record, posts it to the stream processor's *)
(* /telemetry endpoint and records the outcome in its MetricsCollector.    *)
(***************************************************************************)
\* the fields the two TelemetryData dataclasses have in common, without
\* the three the processor's dataclass gives a default
CommonFields ==
    {"timestamp", "car_id", "driver", "lap", "speed_kmh", "rpm", "gear",
     "throttle_percent", "engine_temp_celsius", "brake_pressure_bar",
     "brake_temp_fl_celsius", "brake_temp_fr_celsius",
     "brake_temp_rl_celsius", "brake_temp_rr_celsius", "tire_compound",
     "tire_temp_fl_celsius", "tire_temp_fr_celsius", "tire_temp_rl_celsius",
     "tire_temp_rr_celsius", "tire_pressure_fl_psi", "tire_pressure_fr_psi",
     "tire_pressure_rl_psi", "tire_pressure_rr_psi", "tire_wear_percent",
     "drs_status", "ers_power_kw", "fuel_remaining_kg", "track_temp_celsius",
     "air_temp_celsius", "humidity_percent"}

TagFields == {"has_anomaly", "anomaly_type", "anomaly_severity"}

\* the processor's dataclass: fields without and with a default
ProcessorRequired == CommonFields
ProcessorDefaults == TagFields

\* the simulator's dataclass, every field of which asdict() puts in the
\* posted dictionary
SimulatorFields ==
    CommonFields \cup TagFields \cup
    {"team", "car_number", "car_model", "lap_time_seconds",
     "stint_health_score", "pit_window_probability", "surface_condition",
     "strategy_recommendation"}

\* TelemetryData(**data) of the processor, for a dictionary with these keys:
\* the generated __init__ raises TypeError on a keyword it does not know and
\* on a missing field that has no default
TelemetryData_init(keys) ==
    IF keys \ (ProcessorRequired \cup ProcessorDefaults) # {} THEN "extra"
    ELSE IF ProcessorRequired \ keys # {} THEN "missing"
    ELSE "ok"

\* F1TelemetryGenerator.generate followed by asdict: the record as the
\* processor will see it
F1TelemetryGenerator_generate(car_id, t, thermal) ==
    [Telemetry(car_id, t, "Z", thermal.brake, thermal.tire, Float(0), Float(300))
        EXCEPT !.shape = TelemetryData_init(SimulatorFields)]

\* POST /telemetry: the result with status 200, or 400 when process_message
\* raised
receive_telemetry(S, data) ==
    LET after == StreamProcessor_process_message(S, data)
    IN  [S |-> after,
         status |-> IF after.result.status = "processed" THEN 200 ELSE 400]

\* what happens to the request: a response arrives, the connection fails
\* (aiohttp.ClientError), or the 1 s total timeout expires
Outcomes == {"response", "connection_error", "timeout"}

\* HTTPPublisher.send: an exception of the request is caught and the
\* elapsed time returned, a response of any status returns the latency;
\* errors tells whether the send_errors counter was incremented
HTTPPublisher_send(outcome, status) ==
    IF outcome = "response"
    THEN [raised |-> FALSE, errors |-> ~(200 <= status /\ status < 400)]
    ELSE [raised |-> FALSE, errors |-> TRUE]

MetricsCollector_record_success(m) ==
    [m EXCEPT !.messages_sent = @ + 1]

MetricsCollector_record_failure(m) ==
    [m EXCEPT !.messages_failed = @ + 1]

\* the try statement of run_forever
Recorded(m, sent, entry) ==
    IF sent.raised
    THEN [MetricsCollector_record_failure(m)
            EXCEPT !.sends = Append(@, [entry EXCEPT !.recorded = <<"failure">>])]
    ELSE [MetricsCollector_record_success(m)
            EXCEPT !.sends = Append(@, [entry EXCEPT !.recorded = <<"success">>])]

(***************************************************************************)
(* Eighth specification: the simulator of one car sends a few records to   *)
(* the processor; each request gets a response, fails to connect or times  *)
(* out.                                                                    *)
(***************************************************************************)
MaxSent == 4

Answered(data, outcome, answer) ==
    /\ Shared(IF outcome = "response" THEN answer.S ELSE State)
    /\ metrics' = Recorded(metrics,
                           HTTPPublisher_send(outcome, answer.status),
                           [data |-> data, outcome |-> outcome,
                            status |-> IF outcome = "response"
                                       THEN answer.status ELSE 0,
                            recorded |-> <<>>])
    /\ UNCHANGED <<threads, serialized>>

run_forever(data, outcome) ==
    /\ Len(metrics.sends) < MaxSent
    /\ Answered(data, outcome, receive_telemetry(State, data))

InitSimulator == Starts(Fresh)

NextSimulator ==
    \E outcome \in Outcomes, thermal \in Thermal :
        run_forever(F1TelemetryGenerator_generate(
                        "car1", 4 + Seconds(Len(metrics.sends) + 1), thermal),
                    outcome)

SpecSimulator == InitSimulator /\ [][NextSimulator]_vars

(***************************************************************************)
(* C24: every record the simulator posts is accepted by the processor:     *)
(* the call process_message makes for it returns status "processed".       *)
(***************************************************************************)
C24_SimulatorRecordsAccepted ==
    \A i \in 1..Len(trace) : trace[i].status = "processed"

\* the send of a message failed: the request raised, or the response's
\* status is outside 200-399
SendFailed(send) ==
    send.outcome # "response" \/ ~(200 <= send.status /\ send.status < 400)

(***************************************************************************)
(* C30: for every generated message exactly one of record_success and      *)
(* record_failure is called, record_failure being the one called whenever  *)
(* the send failed, so that messages_sent is the number of messages that   *)
(* were delivered successfully.                                            *)
(***************************************************************************)
C30_FailureRecordedWhenSendFails ==
    /\ \A i \in 1..Len(metrics.sends) :
          /\ Len(metrics.sends[i].recorded) = 1
          /\ SendFailed(metrics.sends[i]) =>
                metrics.sends[i].recorded = <<"failure">>
    /\ metrics.messages_sent =
          Cardinality({i \in 1..Len(metrics.sends) : ~SendFailed(metrics.sends[i])})

\* the events of the call have the duration of the detection window
WindowLong(anomalies) ==
    \A e \in 1..Len(anomalies) : anomalies[e].duration = DETECTION_WINDOW

\* windows of a car after its calls: none spans more than the detection
\* window, and a position for which the last call returned an event has a
\* window whose oldest sample is exactly one detection window old
SpansOf(c, calls) ==
    /\ \A k \in Kinds : \A p \in PositionSet :
          /\ Len(Window(k, c, p)) > 0 => Span(Window(k, c, p)) <= DETECTION_WINDOW
          /\ HasEvent(calls[Len(calls)].anomalies, EventType(k, p)) =>
                Window(k, c, p)[1].timestamp.t
                    = TimeOf(calls[Len(calls)]) - DETECTION_WINDOW
    /\ \A i \in 1..Len(calls) : WindowLong(calls[i].anomalies)

(***************************************************************************)
(* C25: with non-decreasing timestamps, no window spans more than 2.0 s    *)
(* after add; a call returns an event for a position only when that        *)
(* window's oldest retained sample is exactly 2.0 s older than the         *)
(* record; and every event returned has a duration of exactly 2.0 s.       *)
(***************************************************************************)
C25_SpanExactlyWindow ==
    \A c \in KnownCars :
        (Len(CallsOf(c)) > 0 /\ Ordered(CallsOf(c)) /\ AllProcessed(CallsOf(c)))
            => SpansOf(c, CallsOf(c))

\* an ordered stream whose last call returned an event from a window of
\* three samples, after an earlier excursion sampled at 1.0 s and 1.5 s
\* that spanned 2.5 s and returned none
C25_Witness ==
    /\ Len(trace) = 4
    /\ Ordered(trace) /\ AllProcessed(trace)
    /\ trace[4].anomalies # <<>>
    /\ trace[3].anomalies = <<>>
    /\ TimeOf(trace[3]) - TimeOf(trace[1]) > DETECTION_WINDOW
    /\ Above(trace[1].data.brake_temp["fl"], BRAKE_TEMP_CRITICAL)
    /\ Above(trace[2].data.brake_temp["fl"], BRAKE_TEMP_CRITICAL)
    /\ Above(trace[3].data.brake_temp["fl"], BRAKE_TEMP_CRITICAL)
    /\ Len(brake_windows["car1"]["fl"]) = 3

\* the number of events returned by the calls made after time cutoff
RECURSIVE EventsSince(_, _, _)
EventsSince(calls, cutoff, i) ==
    IF i > Len(calls) THEN 0
    ELSE (IF TimeOf(calls[i]) > cutoff THEN Len(calls[i].anomalies) ELSE 0)
         + EventsSince(calls, cutoff, i + 1)

\* records i..j of the car are 1.0 s apart and all above the threshold at
\* the position
SampledExcursion(calls, k, p, i, j) ==
    /\ \A m \in i..j : Above(Temp(k, calls[m].data, p), Threshold(k))
    /\ \A m \in i..(j - 1) : TimeOf(calls[m + 1]) - TimeOf(calls[m]) = Seconds(1)

Unlatched(c, calls) ==
    /\ \A k \in Kinds : \A p \in PositionSet :
          \A i \in 1..Len(calls) : \A j \in (i + 2)..Len(calls) :
              SampledExcursion(calls, k, p, i, j)
                  => HasEvent(calls[j].anomalies, EventType(k, p))
    /\ calls[Len(calls)].anomalies # <<>> =>
          Len(active_anomalies[c])
              = EventsSince(calls, TimeOf(calls[Len(calls)]) - ACTIVE_RETENTION, 1)

(***************************************************************************)
(* C26: events are neither latched nor de-duplicated.  In an ordered       *)
(* stream, during an excursion sampled every 1.0 s every call from the     *)
(* third record on returns an event for the position; and after a call     *)
(* that returned events the car's active list holds one entry for every    *)
(* event returned in the last 60 s, so the active count grows by one per   *)
(* qualifying record and position until the entries are pruned.            *)
(***************************************************************************)
C26_EventsNotLatched ==
    \A c \in KnownCars :
        (Len(CallsOf(c)) > 0 /\ Ordered(CallsOf(c)) /\ AllProcessed(CallsOf(c)))
            => Unlatched(c, CallsOf(c))

\* the third and the fourth record of one excursion each returned the
\* event of the front-left brake, and the active list holds both
C26_Witness ==
    /\ Len(trace) = 4
    /\ SampledExcursion(trace, "brake", "fl", 1, 4)
    /\ HasEvent(trace[3].anomalies, "brake_overheat_fl")
    /\ HasEvent(trace[4].anomalies, "brake_overheat_fl")
    /\ Len(active_anomalies["car1"]) = 2
    /\ AnomalyDetector_get_active_count(active_anomalies) = 2

\* the calls made for a car returned what the same records return when
\* they are the only ones the processor ever receives
SameAsAlone(calls, alone) ==
    \A i \in 1..Len(calls) :
        /\ calls[i].status = alone.trace[i].status
        /\ calls[i].anomalies = alone.trace[i].anomalies
        /\ calls[i].pitstop = alone.trace[i].pitstop

\* the call for car a left the state of every other car as it was
OthersUntouched(a) ==
    /\ \A b \in KnownCars \ {a} :
          /\ brake_windows'[b] = brake_windows[b]
          /\ tire_windows'[b] = tire_windows[b]
          /\ active_anomalies'[b] = active_anomalies[b]
    /\ \A b \in DOMAIN history \ {a} : history'[b] = history[b]

\* the calls a log holds for one car
CallsIn(log, car_id) == SelectSeq(log, LAMBDA e : e.data.car_id = car_id)

ResultsAsAlone(log) ==
    \A c \in Cars :
        SameAsAlone(CallsIn(log, c), Run(Fresh, DataOf(CallsIn(log, c))))

(***************************************************************************)
(* C27: per-car isolation in a serial stream.  A call of process_message   *)
(* for a record of one car leaves the windows, the active list and the     *)
(* history of every other car unchanged; and the results returned for a    *)
(* car are those its records return without the other car's records,       *)
(* whatever the interleaving.                                              *)
(***************************************************************************)
C27_PerCarIsolation ==
    [][ Len(trace') > Len(trace) =>
          /\ OthersUntouched(trace'[Len(trace')].data.car_id)
          /\ ResultsAsAlone(trace')
      ]_vars

\* the third overheated record of car2 returned an event although two
\* records of car1 came between car2's records
C27_Witness ==
    /\ Len(trace) = 5
    /\ Received("car1") = 2
    /\ trace[1].data.car_id = "car2"
    /\ trace[5].data.car_id = "car2"
    /\ trace[5].anomalies # <<>>
    /\ AllProcessed(trace)
    /\ Len(brake_windows["car1"]["fl"]) = 2

\* the calls that returned a result
Completed == {i \in 1..Len(trace) : trace[i].status = "processed"}

(***************************************************************************)
(* C28: the consumer thread and the REST thread may call process_message   *)
(* in any interleaving; once no call is in progress, messages_count is the *)
(* number of calls that returned a result.                                 *)
(***************************************************************************)
C28_CountersSafeUnderThreads ==
    (\A th \in Threads : ~Busy(th)) => messages_count = Cardinality(Completed)

(***************************************************************************)
(* Ninth specification: one car has sent ten records at one speed; it      *)
(* slows down with its eleventh record and then keeps that lower speed     *)
(* for more than a hundred records.                                        *)
(***************************************************************************)
MaxSlide == 111

FastRecords(speed) == [i \in 1..10 |-> TrendRecord("car1", i, speed)]

ReceiveSlide(data) ==
    /\ Len(trace) < MaxSlide
    /\ Becomes(StreamProcessor_process_message(State, data))

InitSlide == \E speed \in EarlySpeeds : Starts(Run(Fresh, FastRecords(speed)))

NextSlide ==
    \/ /\ Len(trace) = 10
       /\ \E gap \in SpeedGaps :
             ReceiveSlide(TrendRecord("car1", 11, LastSpeed("car1") - gap))
    \/ /\ Len(trace) > 10
       /\ ReceiveSlide(TrendRecord("car1", Len(trace) + 1, LastSpeed("car1")))

SpecSlide == InitSlide /\ [][NextSlide]_vars

\* the last hundred calls were all for records at one speed
HundredAtOneSpeed(calls) ==
    /\ Len(calls) >= 100
    /\ \A i \in (Len(calls) - 99)..Len(calls) :
          calls[i].data.speed_kmh = calls[Len(calls)].data.speed_kmh

Slides(calls) ==
    /\ Len(calls) = 10 => calls[10].pitstop.avg_speed_loss = 0
    /\ HundredAtOneSpeed(calls) => calls[Len(calls)].pitstop.avg_speed_loss = 0

(***************************************************************************)
(* C29: the baseline of the speed-loss factor slides with the 100-record   *)
(* history.  The call that brings a car's history to exactly ten records   *)
(* reports a speed loss of 0, and so does a call that follows a hundred    *)
(* consecutive records at one speed, whatever the speeds before them.      *)
(***************************************************************************)
C29_BaselineSlides ==
    \A c \in DOMAIN history :
        AllProcessed(CallsOf(c)) => Slides(CallsOf(c))

\* the car slowed down after ten records; its 109th record still reports a
\* speed loss, its 110th (the hundredth at the lower speed) reports none
C29_Witness ==
    /\ Len(trace) = 110
    /\ AllProcessed(trace)
    /\ trace[1].data.speed_kmh.v > trace[110].data.speed_kmh.v
    /\ trace[109].pitstop.avg_speed_loss > 0
    /\ trace[110].pitstop.avg_speed_loss = 0
    /\ Len(history["car1"]) = 100
====
